---- MODULE Spec2Model ----
(***************************************************************************)
(* A model of the BOJ accepted-submission crawler: the date filter of      *)
(* BOJCrawler, its retrying fetcher, the page walk of get_solved_problems  *)
(* and the batch runner of boj_crawler/batch.py.                           *)
(*                                                                         *)
(* Strings.  A date string (YYMMDD) or a month string (YYYYMM) is the      *)
(* sequence of its decimal digits.  None and the empty string are both     *)
(* falsy in every test the code makes of them and are both <<>>.  A        *)
(* timestamp string is the sequence of the numbers between its separators  *)
(* ("2024-01-15 10:00:00" is <<2024, 1, 15, 10, 0, 0>>); a string of       *)
(* another shape has another length ("" is <<>>).                          *)
(***************************************************************************)
EXTENDS Integers, Sequences, FiniteSets, TLC

VARIABLES
    crawler,          \* the BOJCrawler object: its filter fields
    submission_time,  \* the timestamp handed to the filter (filter runs)
    includes,         \* <<>> or <<result of should_include_submission>>
    before,           \* <<>> or <<result of is_before_date_range>>
    pc,               \* position in get_solved_problems
    current_url,      \* number of the page current_url points at, 0 for None
    stop_crawling,
    all_problems,
    attempt,          \* the loop variable of _make_request_with_retry
    req_log,          \* GETs and sleeps of the current _make_request_with_retry
    last_answer,      \* the server's answer to the latest GET
    failure,          \* "none", "fetch" (RequestException) or "table" (no table)
    calls,            \* pages requested so far, in order
    page_sleeps,      \* time slept between pages so far (line 227)
    expected,         \* the records the pages served so far should yield
    accepted_sum,     \* the sum of the per-page accepted rows so far
    stopped_at,       \* number of the first page with a stopping row, 0 if none
    rows_served,      \* the rows of the pages processed so far, counted
    included_below,   \* the included rows below the stopping row, counted
    row_errors,       \* "Error parsing problem row" lines logged so far
    usernames,        \* batch_crawl's list of usernames
    generate_report,
    user_index,       \* i, the for loop's number of the current user, from 1
    bpc,              \* position in batch_crawl
    combined_monthly_stats,
    report,           \* <<>> or <<the report save_monthly_report wrote>>
    saves,            \* how many times the report was saved
    batch_log,        \* batch_crawl's sleeps and the users they followed
    results,          \* per user processed: its name, whether it raised, its records
    args,             \* the command line of batch.py's main
    exit_status       \* <<>> while the process runs, then <<its exit status>>

vars == <<crawler, submission_time, includes, before, pc, current_url,
          stop_crawling, all_problems, attempt, req_log, last_answer,
          failure, calls, page_sleeps, expected, accepted_sum, stopped_at,
          rows_served, included_below, row_errors, usernames,
          generate_report, user_index,
          bpc, combined_monthly_stats, report, saves, batch_log, results,
          args, exit_status>>

main_vars == <<args, exit_status>>

batch_vars == <<usernames, generate_report, user_index, bpc,
                combined_monthly_stats, report, saves, batch_log, results,
                args, exit_status>>

filter_vars == <<submission_time, includes, before>>

crawl_vars == <<pc, current_url, stop_crawling, all_problems, attempt, req_log,
                last_answer, failure, calls, page_sleeps, expected, accepted_sum, stopped_at,
                rows_served, included_below,
                   row_errors>>

(***************************************************************************)
(* Bounds of the model and constants of the program.                       *)
(***************************************************************************)
MaxPages == 2

MaxRows == 2

max_retries == 3

retry_delay == 2

delay == 2

(***************************************************************************)
(* datetime: the calendar, strptime and strftime.                          *)
(***************************************************************************)
NoDate == [ok |-> FALSE, y |-> 0, m |-> 0, d |-> 0]

IsLeap(y) == (y % 4 = 0 /\ y % 100 # 0) \/ y % 400 = 0

DaysIn(y, m) ==
    IF m = 2 THEN (IF IsLeap(y) THEN 29 ELSE 28)
    ELSE IF m \in {4, 6, 9, 11} THEN 30 ELSE 31

\* datetime(year, month, day): the date, or NoDate where Python raises ValueError
datetime(y, m, d) ==
    IF y \in 1..9999 /\ m \in 1..12 /\ d \in 1..DaysIn(y, m)
    THEN [ok |-> TRUE, y |-> y, m |-> m, d |-> d]
    ELSE NoDate

\* datetime.strptime(s, "%Y-%m-%d %H:%M:%S").date(), NoDate for a ValueError
strptime(s) ==
    IF Len(s) = 6 /\ s[4] \in 0..23 /\ s[5] \in 0..59 /\ s[6] \in 0..59
    THEN datetime(s[1], s[2], s[3])
    ELSE NoDate

\* strftime with "%Y%-m": the month not padded to two digits
strftime_Ym_unpadded(dt) ==
    <<dt.y \div 1000, (dt.y \div 100) % 10, (dt.y \div 10) % 10, dt.y % 10>>
    \o (IF dt.m >= 10 THEN <<dt.m \div 10>> ELSE <<>>) \o <<dt.m % 10>>

\* dt.strftime("%Y%m"): six digits
strftime_Ym(dt) ==
    <<dt.y \div 1000, (dt.y \div 100) % 10, (dt.y \div 10) % 10, dt.y % 10,
      dt.m \div 10, dt.m % 10>>

\* dates compared by year and month alone
date_lt_months(a, b) ==
    \/ a.y < b.y
    \/ a.y = b.y /\ a.m < b.m

\* a < b on dates: year, then month, then day
date_lt(a, b) ==
    \/ a.y < b.y
    \/ a.y = b.y /\ a.m < b.m
    \/ a.y = b.y /\ a.m = b.m /\ a.d < b.d

\* a < b on strings: the first differing character decides, a proper prefix is less
RECURSIVE str_lt(_, _)
str_lt(a, b) ==
    IF b = <<>> THEN FALSE
    ELSE IF a = <<>> THEN TRUE
    ELSE IF Head(a) # Head(b) THEN Head(a) < Head(b)
    ELSE str_lt(Tail(a), Tail(b))

(***************************************************************************)
(* BOJCrawler: construction and the date filter.                           *)
(***************************************************************************)
parse_yymmdd_date(date_str) ==
    IF date_str = <<>> \/ Len(date_str) # 6 THEN NoDate
    ELSE datetime(2000 + date_str[1] * 10 + date_str[2],
                  date_str[3] * 10 + date_str[4],
                  date_str[5] * 10 + date_str[6])

BOJCrawler(start_date, end_date, target_month) ==
    [start_date |-> start_date,
     end_date |-> end_date,
     target_month |-> target_month,
     start_datetime |-> IF start_date # <<>> THEN parse_yymmdd_date(start_date)
                        ELSE NoDate,
     end_datetime |-> IF end_date # <<>> THEN parse_yymmdd_date(end_date)
                      ELSE NoDate]

is_in_date_range(self, t) ==
    LET dt == strptime(t) IN
    IF ~dt.ok THEN FALSE
    ELSE IF self.start_datetime.ok /\ date_lt(dt, self.start_datetime) THEN FALSE
    ELSE IF self.end_datetime.ok /\ date_lt(self.end_datetime, dt) THEN FALSE
    ELSE TRUE

\* is_target_month answering True where strptime raises
is_target_month_lenient(self, t) ==
    IF self.target_month = <<>> THEN TRUE
    ELSE LET dt == strptime(t) IN
         IF ~dt.ok THEN TRUE
         ELSE strftime_Ym(dt) = self.target_month

is_target_month(self, t) ==
    IF self.target_month = <<>> THEN TRUE
    ELSE LET dt == strptime(t) IN
         IF ~dt.ok THEN FALSE
         ELSE strftime_Ym(dt) = self.target_month

is_before_date_range(self, t) ==
    LET dt == strptime(t) IN
    IF ~dt.ok THEN FALSE
    ELSE IF self.start_datetime.ok /\ date_lt(dt, self.start_datetime) THEN TRUE
    ELSE IF self.target_month # <<>>
         THEN str_lt(strftime_Ym(dt), self.target_month)
    ELSE FALSE

should_include_submission(self, t) ==
    IF self.start_date # <<>> \/ self.end_date # <<>>
    THEN is_in_date_range(self, t)
    ELSE is_target_month(self, t)

(***************************************************************************)
(* _make_request_with_retry: what one attempt's answer leads to.  An       *)
(* answer is an HTTP response with its status, or a network failure (a     *)
(* RequestException that carries no response).                             *)
(***************************************************************************)
HttpResponse(status) == [kind |-> "response", status |-> status]

NetworkFailure == [kind |-> "neterror", status |-> 0]

NoAnswer == [kind |-> "none", status |-> 0]

\* bool(response) is response.ok in requests: false for a 4xx or 5xx status
response_truthy(r) == r.kind = "response" /\ r.status < 400

\* the except clause retrying whatever the error
request_except_any(att, e) ==
    IF att < max_retries THEN "retry" ELSE "raise"

\* the except clause: "retry" (sleep, continue) or "raise"
request_except(att, e) ==
    IF response_truthy(e) /\ e.status = 403 /\ att < max_retries
    THEN "retry"
    ELSE "raise"

\* the for loop retrying once more: attempt <= max_retries
request_attempt_once_more(att, r) ==
    IF r.kind # "response" THEN request_except(att, r)
    ELSE IF r.status = 403
         THEN IF att <= max_retries THEN "retry"
              ELSE request_except(att, r)
    ELSE IF r.status >= 400 THEN request_except(att, r)
    ELSE "return"

\* one pass of the for loop: "retry" (sleep, continue), "raise" or "return"
request_attempt(att, r) ==
    IF r.kind # "response" THEN request_except(att, r)
    ELSE IF r.status = 403
         THEN IF att < max_retries THEN "retry"
              ELSE request_except(att, r)
    ELSE IF r.status >= 400 THEN request_except(att, r)
    ELSE "return"

GetEvent == [ev |-> "GET", t |-> 0]

SleepEvent(t) == [ev |-> "SLEEP", t |-> t]

(***************************************************************************)
(* get_solved_problems: the scan of one page's rows.  A row is a <tr> of   *)
(* the status table: its submission id, its number of <td> columns,        *)
(* whether cols[8] and cols[2] hold an <a>, and the title of cols[8]'s <a>.*)
(* A record keeps the submission id and time of the row (the problem id,   *)
(* title and language are copied the same way and decide nothing).         *)
(***************************************************************************)
problem_of(row) ==
    [submission_id |-> row.submission_id, submission_time |-> row.submission_time]

\* the loop body stopping at a row the filter leaves out
row_outcome_filter_stops(self, row) ==
    IF row.ncols < 6 THEN "short"
    ELSE IF row.ncols < 9 THEN "error"
    ELSE IF ~row.time_link THEN "error"
    ELSE IF is_before_date_range(self, row.submission_time) THEN "stop"
    ELSE IF ~should_include_submission(self, row.submission_time) THEN "stop"
    ELSE IF ~row.title_link THEN "error"
    ELSE "append"

\* the loop body with one try around the whole loop: a failing row ends it
row_outcome_error_aborts(self, row) ==
    IF row.ncols < 6 THEN "short"
    ELSE IF row.ncols < 9 THEN "stop"
    ELSE IF ~row.time_link THEN "stop"
    ELSE IF is_before_date_range(self, row.submission_time) THEN "stop"
    ELSE IF ~should_include_submission(self, row.submission_time) THEN "filtered"
    ELSE IF ~row.title_link THEN "stop"
    ELSE "append"

\* the body of the for loop over rows, lines 186-210
row_outcome(self, row) ==
    IF row.ncols < 6 THEN "short"
    ELSE IF row.ncols < 9 THEN "error"
    ELSE IF ~row.time_link THEN "error"
    ELSE IF is_before_date_range(self, row.submission_time) THEN "stop"
    ELSE IF ~should_include_submission(self, row.submission_time) THEN "filtered"
    ELSE IF ~row.title_link THEN "error"
    ELSE "append"

\* the for loop setting stop_crawling without breaking
RECURSIVE scan_rows_no_break(_, _, _)
scan_rows_no_break(self, rows, problems) ==
    IF rows = <<>> THEN [problems |-> problems, stop |-> FALSE]
    ELSE LET rest == scan_rows_no_break(self, Tail(rows),
                        IF row_outcome(self, Head(rows)) = "append"
                        THEN Append(problems, problem_of(Head(rows)))
                        ELSE problems)
         IN [problems |-> rest.problems,
             stop |-> rest.stop \/ row_outcome(self, Head(rows)) = "stop"]

\* the for loop over rows from `rows` on, `problems` holding the page's records
\* so far: the page's records and whether the loop broke
RECURSIVE scan_rows(_, _, _)
scan_rows(self, rows, problems) ==
    IF rows = <<>> THEN [problems |-> problems, stop |-> FALSE]
    ELSE IF row_outcome(self, Head(rows)) = "stop"
         THEN [problems |-> problems, stop |-> TRUE]
    ELSE scan_rows(self, Tail(rows),
                   IF row_outcome(self, Head(rows)) = "append"
                   THEN Append(problems, problem_of(Head(rows)))
                   ELSE problems)

\* lines 209-210: the rows of the for loop that end in the except clause
RECURSIVE scan_errors(_, _)
scan_errors(self, rows) ==
    IF rows = <<>> THEN 0
    ELSE IF row_outcome(self, Head(rows)) = "stop" THEN 0
    ELSE (IF row_outcome(self, Head(rows)) = "error" THEN 1 ELSE 0)
         + scan_errors(self, Tail(rows))

(***************************************************************************)
(* Inputs.                                                                 *)
(***************************************************************************)
NoString == <<>>

\* command-line date strings: dates, a day that does not exist, a YYYYMM month
\* where a YYMMDD date is expected, a string too short
DateStrings ==
    {<<2,3,1,2,3,1>>, <<2,4,0,1,0,1>>, <<2,4,0,1,1,5>>, <<2,4,0,1,3,1>>,
     <<2,4,0,2,2,9>>, <<2,4,0,2,3,0>>, <<2,0,2,4,0,1>>, <<2,4,0,1>>}

MonthStrings ==
    {<<2,0,2,3,1,2>>, <<2,0,2,4,0,1>>, <<2,0,2,4,0,2>>, <<2,0,2,4,1,0>>}

FilterConfigs ==
    {BOJCrawler(s, e, m) : s \in DateStrings \cup {NoString},
                           e \in DateStrings \cup {NoString},
                           m \in MonthStrings \cup {NoString}}

\* timestamp strings of the right shape, with fields in and out of range
ShapedTimes ==
    {<<y, m, d>> \o tod : y \in {2023, 2024}, m \in {1, 2, 10, 12, 13},
                          d \in {0, 1, 29, 30, 31},
                          tod \in {<<0, 0, 0>>, <<23, 59, 59>>, <<24, 0, 0>>}}

\* the empty string, a date without a time of day
UnshapedTimes == {<<>>, <<2024, 1, 15>>}

TimeStrings == ShapedTimes \cup UnshapedTimes

\* the crawls' filters: a month, a date range, an end date alone
CrawlConfigs ==
    {BOJCrawler(NoString, NoString, <<2,0,2,4,0,1>>),
     BOJCrawler(<<2,4,0,1,0,1>>, <<2,4,0,1,3,1>>, NoString),
     BOJCrawler(NoString, <<2,4,0,1,3,1>>, NoString)}

T_old == <<2023, 12, 31, 23, 59, 59>>

T_first == <<2024, 1, 1, 0, 0, 0>>

T_last == <<2024, 1, 31, 23, 59, 59>>

T_new == <<2024, 2, 1, 0, 0, 0>>

TableRow(id, ncols, time_link, title_link, t) ==
    [submission_id |-> id, ncols |-> ncols, time_link |-> time_link,
     title_link |-> title_link, submission_time |-> t]

\* whole rows of each age, and a row too short for its timestamp to be read
Rows ==
    {TableRow("s1", 9, TRUE, TRUE, T_new),
     TableRow("s2", 9, TRUE, TRUE, T_last),
     TableRow("s3", 9, TRUE, TRUE, T_first),
     TableRow("s4", 9, TRUE, TRUE, T_old),
     TableRow("s5", 7, TRUE, TRUE, T_old)}

RECURSIVE SeqsUpTo(_, _)
SeqsUpTo(S, n) ==
    IF n = 0 THEN {<<>>}
    ELSE LET shorter == SeqsUpTo(S, n - 1) IN
         shorter \cup {Append(q, x) : q \in shorter, x \in S}

\* a fetched document: has it a status table, its rows below the header,
\* has it a next-page link
Page(table, rows, next) == [table |-> table, rows |-> rows, next |-> next]

NoTablePage == Page(FALSE, <<>>, FALSE)

RowSeqs == SeqsUpTo(Rows, MaxRows)

Pages == {Page(TRUE, rows, next) : rows \in RowSeqs, next \in BOOLEAN}

\* statuses the server answers with besides 403
ErrorStatuses == {404, 429, 500}

(***************************************************************************)
(* What a page should yield, stated on the page itself: the rows whose     *)
(* timestamp is read, the first of them that is before the range, and the  *)
(* rows above it that are whole and included.                              *)
(***************************************************************************)
TimeRead(row) == row.ncols >= 9 /\ row.time_link

BeforeRange(self, row) ==
    TimeRead(row) /\ is_before_date_range(self, row.submission_time)

Included(self, row) ==
    /\ TimeRead(row)
    /\ row.title_link
    /\ should_include_submission(self, row.submission_time)

HasStop(self, rows) == \E i \in 1..Len(rows) : BeforeRange(self, rows[i])

FirstStop(self, rows) ==
    IF HasStop(self, rows)
    THEN CHOOSE i \in 1..Len(rows) :
            /\ BeforeRange(self, rows[i])
            /\ \A j \in 1..(i - 1) : ~BeforeRange(self, rows[j])
    ELSE Len(rows) + 1

IncludedAbove(self, rows) ==
    LET above == SubSeq(rows, 1, FirstStop(self, rows) - 1)
        keep(r) == Included(self, r)
        kept == SelectSeq(above, keep)
    IN [i \in 1..Len(kept) |-> problem_of(kept[i])]

IncludedCount(self, rows) ==
    Cardinality({i \in 1..(FirstStop(self, rows) - 1) : Included(self, rows[i])})

IncludedBelow(self, rows) ==
    Cardinality({i \in (FirstStop(self, rows) + 1)..Len(rows) :
                    Included(self, rows[i])})

\* a page with its scan (lines 182-210) and with what it should yield, under
\* filter c
PageRun(c, page) ==
    [page |-> page,
     scan |-> scan_rows(c, page.rows, <<>>),
     records |-> IncludedAbove(c, page.rows),
     count |-> IncludedCount(c, page.rows),
     has_stop |-> HasStop(c, page.rows),
     below |-> IncludedBelow(c, page.rows),
     errors |-> scan_errors(c, page.rows)]

\* every page the server may answer with, scanned once under each filter
PageRuns == [c \in CrawlConfigs |-> {PageRun(c, page) : page \in Pages}]

(***************************************************************************)
(* The filter runs: one crawler, one timestamp, each decision asked once.  *)
(***************************************************************************)
CrawlStart ==
    /\ pc = "loop"
    /\ current_url = 1
    /\ stop_crawling = FALSE
    /\ all_problems = <<>>
    /\ attempt = 0
    /\ req_log = <<>>
    /\ last_answer = NoAnswer
    /\ failure = "none"
    /\ calls = <<>>
    /\ page_sleeps = 0
    /\ expected = <<>>
    /\ accepted_sum = 0
    /\ stopped_at = 0
    /\ rows_served = 0
    /\ included_below = 0
    /\ row_errors = 0

\* no batch is running
\* a command line with no option given, and no username in the file
NoArgs ==
    [month |-> <<>>, start_date |-> <<>>, end_date |-> <<>>,
     no_report |-> FALSE, file |-> <<>>]

NoBatch ==
    /\ args = NoArgs
    /\ exit_status = <<>>
    /\ usernames = <<>>
    /\ generate_report = FALSE
    /\ user_index = 0
    /\ bpc = "none"
    /\ combined_monthly_stats = <<>>
    /\ report = <<>>
    /\ saves = 0
    /\ batch_log = <<>>
    /\ results = <<>>

FilterInit ==
    /\ crawler \in FilterConfigs
    /\ submission_time \in TimeStrings
    /\ includes = <<>>
    /\ before = <<>>
    /\ CrawlStart
    /\ NoBatch

CallShouldInclude ==
    /\ includes = <<>>
    /\ includes' = <<should_include_submission(crawler, submission_time)>>
    /\ UNCHANGED <<crawler, submission_time, before>>
    /\ UNCHANGED crawl_vars
    /\ UNCHANGED batch_vars

CallIsBeforeDateRange ==
    /\ before = <<>>
    /\ before' = <<is_before_date_range(crawler, submission_time)>>
    /\ UNCHANGED <<crawler, submission_time, includes>>
    /\ UNCHANGED crawl_vars
    /\ UNCHANGED batch_vars

FilterNext == CallShouldInclude \/ CallIsBeforeDateRange

FilterSpec == FilterInit /\ [][FilterNext]_vars

(***************************************************************************)
(* get_solved_problems, one crawl.                                         *)
(***************************************************************************)
Init ==
    /\ crawler \in CrawlConfigs
    /\ submission_time = <<>>
    /\ includes = <<>>
    /\ before = <<>>
    /\ CrawlStart
    /\ NoBatch

\* line 168: the while test, and the call of _make_request_with_retry
LoopTest ==
    /\ pc = "loop"
    /\ IF current_url # 0 /\ ~stop_crawling
       THEN /\ pc' = "request"
            /\ calls' = Append(calls, current_url)
       ELSE /\ pc' = "returned"
            /\ UNCHANGED calls
    /\ UNCHANGED <<crawler, current_url, stop_crawling, all_problems, attempt,
                   req_log, last_answer, failure, page_sleeps, expected,
                   accepted_sum, stopped_at, rows_served, included_below,
                   row_errors>>
    /\ UNCHANGED filter_vars
    /\ UNCHANGED batch_vars

\* a GET answered so that the for loop sleeps and continues
AttemptRetried(r) ==
    /\ pc = "request"
    /\ request_attempt(attempt, r) = "retry"
    /\ req_log' = req_log \o <<GetEvent, SleepEvent(retry_delay)>>
    /\ last_answer' = r
    /\ attempt' = attempt + 1
    /\ UNCHANGED <<crawler, pc, current_url, stop_crawling, all_problems, failure,
                   calls, page_sleeps, expected, accepted_sum, stopped_at,
                   rows_served, included_below,
                   row_errors>>
    /\ UNCHANGED filter_vars
    /\ UNCHANGED batch_vars

\* the exception leaving get_solved_problems: the records gathered are lost
AttemptRaisedUncaught(r) ==
    /\ pc = "request"
    /\ request_attempt(attempt, r) = "raise"
    /\ req_log' = Append(req_log, GetEvent)
    /\ last_answer' = r
    /\ failure' = "fetch"
    /\ pc' = "returned"
    /\ all_problems' = <<>>
    /\ UNCHANGED <<crawler, current_url, stop_crawling, attempt, calls,
                   page_sleeps, expected, accepted_sum, stopped_at,
                   rows_served, included_below,
                   row_errors>>
    /\ UNCHANGED filter_vars
    /\ UNCHANGED batch_vars

\* a GET answered so that the call raises: line 229 logs the error and breaks
AttemptRaised(r) ==
    /\ pc = "request"
    /\ request_attempt(attempt, r) = "raise"
    /\ req_log' = Append(req_log, GetEvent)
    /\ last_answer' = r
    /\ failure' = "fetch"
    /\ pc' = "returned"
    /\ UNCHANGED <<crawler, current_url, stop_crawling, all_problems, attempt,
                   calls, page_sleeps, expected, accepted_sum, stopped_at,
                   rows_served, included_below,
                   row_errors>>
    /\ UNCHANGED filter_vars
    /\ UNCHANGED batch_vars

\* a GET answered so that the call returns the response; the call's own
\* variables end with it
AttemptReturned(r) ==
    /\ pc = "request"
    /\ request_attempt(attempt, r) = "return"
    /\ req_log' = <<>>
    /\ attempt' = 0
    /\ last_answer' = r
    /\ pc' = "parse"
    /\ UNCHANGED <<crawler, current_url, stop_crawling, all_problems, failure,
                   calls, page_sleeps, expected, accepted_sum, stopped_at,
                   rows_served, included_below,
                   row_errors>>
    /\ UNCHANGED filter_vars
    /\ UNCHANGED batch_vars

\* lines 177-180: the document has no status table
PageWithoutTable ==
    /\ pc = "parse"
    /\ failure' = "table"
    /\ pc' = "returned"
    /\ UNCHANGED <<crawler, current_url, stop_crawling, all_problems, attempt,
                   req_log, last_answer, calls, page_sleeps, expected,
                   accepted_sum, stopped_at, rows_served, included_below,
                   row_errors>>
    /\ UNCHANGED filter_vars
    /\ UNCHANGED batch_vars

\* a page after which the inter-page sleep is taken whatever follows
PageProcessedAlwaysSleeps(run) ==
    /\ pc = "parse"
    /\ current_url < MaxPages \/ ~run.page.next
    /\ all_problems' = all_problems \o run.scan.problems
    /\ stop_crawling' = run.scan.stop
    /\ IF run.scan.stop
       THEN /\ pc' = "returned"
            /\ UNCHANGED current_url
       ELSE /\ pc' = "loop"
            /\ IF run.page.next
               THEN current_url' = current_url + 1
               ELSE current_url' = 0
    /\ page_sleeps' = page_sleeps + delay
    /\ expected' = expected \o run.records
    /\ accepted_sum' = accepted_sum + run.count
    /\ stopped_at' = IF stopped_at = 0 /\ run.has_stop THEN current_url
                     ELSE stopped_at
    /\ rows_served' = rows_served + Len(run.page.rows)
    /\ included_below' = included_below + run.below
    /\ row_errors' = row_errors + run.errors
    /\ UNCHANGED <<crawler, attempt, req_log, last_answer, failure, calls>>
    /\ UNCHANGED filter_vars
    /\ UNCHANGED batch_vars

\* lines 182-227: the document is a status page; the chain of pages ends
\* with page MaxPages at the latest
PageProcessed(run) ==
    /\ pc = "parse"
    /\ current_url < MaxPages \/ ~run.page.next
    /\ all_problems' = all_problems \o run.scan.problems
    /\ stop_crawling' = run.scan.stop
    /\ IF run.scan.stop
       THEN /\ pc' = "returned"
            /\ UNCHANGED <<current_url, page_sleeps>>
       ELSE /\ pc' = "loop"
            /\ IF run.page.next
               THEN /\ current_url' = current_url + 1
                    /\ page_sleeps' = page_sleeps + delay
               ELSE /\ current_url' = 0
                    /\ UNCHANGED page_sleeps
    /\ expected' = expected \o run.records
    /\ accepted_sum' = accepted_sum + run.count
    /\ stopped_at' = IF stopped_at = 0 /\ run.has_stop THEN current_url
                     ELSE stopped_at
    /\ rows_served' = rows_served + Len(run.page.rows)
    /\ included_below' = included_below + run.below
    /\ row_errors' = row_errors + run.errors
    /\ UNCHANGED <<crawler, attempt, req_log, last_answer, failure, calls>>
    /\ UNCHANGED filter_vars
    /\ UNCHANGED batch_vars

\* what the server answers to a GET
Answers ==
    {HttpResponse(st) : st \in ErrorStatuses \cup {200, 403}}
    \cup {NetworkFailure}

Next ==
    \/ LoopTest
    \/ \E r \in Answers : AttemptRetried(r)
    \/ \E r \in Answers : AttemptRaised(r)
    \/ \E r \in Answers : AttemptReturned(r)
    \/ PageWithoutTable
    \/ \E run \in PageRuns[crawler] : PageProcessed(run)

Spec == Init /\ [][Next]_vars

\* the program takes its next step whenever it has one
FairSpec == Spec /\ WF_vars(Next)

(***************************************************************************)
(* get_solved_problems on pages with rows that are not submissions: rows   *)
(* with too few cells, rows without the links the loop body reads.         *)
(***************************************************************************)
\* a whole row inside the range, a whole row before it; rows of 7 and of 3
\* cells; rows of 9 cells without the timestamp link, without the title link
OddRows ==
    {TableRow("s2", 9, TRUE, TRUE, T_last),
     TableRow("s4", 9, TRUE, TRUE, T_old),
     TableRow("s5", 7, TRUE, TRUE, T_old),
     TableRow("s6", 3, TRUE, TRUE, T_last),
     TableRow("s7", 9, FALSE, TRUE, T_last),
     TableRow("s8", 9, TRUE, FALSE, T_last)}

OddPages ==
    {Page(TRUE, rows, next) : rows \in SeqsUpTo(OddRows, MaxRows),
                              next \in BOOLEAN}

RowConfigs ==
    {BOJCrawler(NoString, NoString, <<2,0,2,4,0,1>>),
     BOJCrawler(<<2,4,0,1,0,1>>, <<2,4,0,1,3,1>>, NoString)}

RowPageRuns == [c \in RowConfigs |-> {PageRun(c, page) : page \in OddPages}]

RowInit ==
    /\ crawler \in RowConfigs
    /\ submission_time = <<>>
    /\ includes = <<>>
    /\ before = <<>>
    /\ CrawlStart
    /\ NoBatch

RowNext ==
    \/ LoopTest
    \/ \E r \in Answers : AttemptRetried(r)
    \/ \E r \in Answers : AttemptRaised(r)
    \/ \E r \in Answers : AttemptReturned(r)
    \/ PageWithoutTable
    \/ \E run \in RowPageRuns[crawler] : PageProcessed(run)

RowSpec == RowInit /\ [][RowNext]_vars

(***************************************************************************)
(* cli.py: main with -d.  The date that passes the check of lines 12-17    *)
(* is handed to BOJCrawler as its second positional argument, start_date.  *)
(***************************************************************************)
\* lines 13-14: datetime.strptime(args.date, "%Y%m") raises no ValueError
\* (%Y takes four digits, %m one or two)
cli_date_accepted(date) ==
    /\ Len(date) \in {5, 6}
    /\ date[1] * 1000 + date[2] * 100 + date[3] * 10 + date[4] >= 1
    /\ IF Len(date) = 6 THEN (date[5] * 10 + date[6]) \in 1..12
       ELSE date[5] \in 1..9

\* line 20: BOJCrawler(user_id, args.date)
cli_crawler(date) == BOJCrawler(date, NoString, NoString)

\* -d 202401, which is no YYMMDD date, and -d 201201, which as YYMMDD is
\* the first of December 2020
CliDates ==
    {date \in {<<2,0,2,4,0,1>>, <<2,0,1,2,0,1>>} : cli_date_accepted(date)}

CliConfigs == {cli_crawler(date) : date \in CliDates}

CliPageRuns == [c \in CliConfigs |-> {PageRun(c, page) : page \in Pages}]

CliInit ==
    /\ crawler \in CliConfigs
    /\ submission_time = <<>>
    /\ includes = <<>>
    /\ before = <<>>
    /\ CrawlStart
    /\ NoBatch

\* line 23: crawler.get_solved_problems()
CliNext ==
    \/ LoopTest
    \/ \E r \in Answers : AttemptRetried(r)
    \/ \E r \in Answers : AttemptRaised(r)
    \/ \E r \in Answers : AttemptReturned(r)
    \/ PageWithoutTable
    \/ \E run \in CliPageRuns[crawler] : PageProcessed(run)

CliSpec == CliInit /\ [][CliNext]_vars

(***************************************************************************)
(* batch.py: the monthly statistics.  A dict is a function on its keys;    *)
(* a month key "YYYY-MM" is the six digits of strftime_Ym (the dash has a  *)
(* fixed place and decides no comparison).                                 *)
(***************************************************************************)
\* d[month][user] of a defaultdict of defaultdict(int)
stats_get(stats, month, user) ==
    IF month \in DOMAIN stats /\ user \in DOMAIN stats[month]
    THEN stats[month][user]
    ELSE 0

\* d[month][user] = count
stats_set(stats, month, user, count) ==
    [m \in DOMAIN stats \cup {month} |->
        IF m = month
        THEN [u \in (IF m \in DOMAIN stats THEN DOMAIN stats[m] ELSE {})
                    \cup {user} |->
                IF u = user THEN count ELSE stats[m][u]]
        ELSE stats[m]]

\* the for loop of generate_monthly_report from `problems` on
RECURSIVE count_months(_, _, _)
count_months(problems, username, monthly_stats) ==
    IF problems = <<>> THEN monthly_stats
    ELSE LET dt == strptime(Head(problems).submission_time) IN
         IF ~dt.ok THEN count_months(Tail(problems), username, monthly_stats)
         ELSE count_months(Tail(problems), username,
                  stats_set(monthly_stats, strftime_Ym(dt), username,
                      stats_get(monthly_stats, strftime_Ym(dt), username) + 1))

generate_monthly_report(problems, username) ==
    count_months(problems, username, <<>>)

\* a merge that adds a user's count to the one already stored
merge_monthly_stats_adding(combined, user_monthly_stats) ==
    [m \in DOMAIN combined \cup DOMAIN user_monthly_stats |->
        IF m \in DOMAIN user_monthly_stats
        THEN [u \in (IF m \in DOMAIN combined THEN DOMAIN combined[m] ELSE {})
                    \cup DOMAIN user_monthly_stats[m] |->
                stats_get(combined, m, u) + stats_get(user_monthly_stats, m, u)]
        ELSE combined[m]]

\* lines 121-123: combined_monthly_stats[month][user] = count, for every
\* month and user of user_monthly_stats
merge_monthly_stats(combined, user_monthly_stats) ==
    [m \in DOMAIN combined \cup DOMAIN user_monthly_stats |->
        IF m \in DOMAIN user_monthly_stats
        THEN [u \in (IF m \in DOMAIN combined THEN DOMAIN combined[m] ELSE {})
                    \cup DOMAIN user_monthly_stats[m] |->
                IF u \in DOMAIN user_monthly_stats[m]
                THEN user_monthly_stats[m][u]
                ELSE combined[m][u]]
        ELSE combined[m]]

\* sorted(keys, reverse=True) on strings
RECURSIVE sorted_reverse(_)
sorted_reverse(keys) ==
    IF keys = {} THEN <<>>
    ELSE LET top == CHOOSE k \in keys : \A other \in keys : ~str_lt(k, other)
         IN <<top>> \o sorted_reverse(keys \ {top})

\* the keys of {username: ... for username in all_usernames}, in dict order
RECURSIVE dict_keys(_)
dict_keys(names) ==
    IF names = <<>> THEN <<>>
    ELSE LET front == dict_keys(SubSeq(names, 1, Len(names) - 1))
             name == names[Len(names)]
         IN IF \E k \in 1..Len(front) : front[k] = name THEN front
            ELSE Append(front, name)

\* a sort by count that puts an item ahead of the equal counts before it
RECURSIVE sorted_by_count_unstable(_)
sorted_by_count_unstable(items) ==
    IF items = <<>> THEN <<>>
    ELSE LET front == sorted_by_count_unstable(SubSeq(items, 1, Len(items) - 1))
             item == items[Len(items)]
             n == Cardinality({k \in 1..Len(front) : front[k].count > item.count})
         IN SubSeq(front, 1, n) \o <<item>> \o SubSeq(front, n + 1, Len(front))

\* sorted(items, key=count, reverse=True): stable, equal counts keep their order
RECURSIVE sorted_by_count(_)
sorted_by_count(items) ==
    IF items = <<>> THEN <<>>
    ELSE LET front == sorted_by_count(SubSeq(items, 1, Len(items) - 1))
             item == items[Len(items)]
             n == Cardinality({k \in 1..Len(front) : front[k].count >= item.count})
         IN SubSeq(front, 1, n) \o <<item>> \o SubSeq(front, n + 1, Len(front))

\* sum(d.values())
RECURSIVE sum_values(_)
sum_values(d) ==
    IF DOMAIN d = {} THEN 0
    ELSE LET k == CHOOSE key \in DOMAIN d : TRUE
         IN d[k] + sum_values([key \in DOMAIN d \ {k} |-> d[key]])

\* formatted_report of save_monthly_report: the months in report order, each
\* with its total and its users in report order
save_monthly_report(monthly_stats, all_usernames) ==
    LET sorted_months == sorted_reverse(DOMAIN monthly_stats)
        keys == dict_keys(all_usernames)
        month_users(month) ==
            sorted_by_count([k \in 1..Len(keys) |->
                [user |-> keys[k],
                 count |-> IF keys[k] \in DOMAIN monthly_stats[month]
                           THEN monthly_stats[month][keys[k]] ELSE 0]])
    IN [monthly_stats |->
            [k \in 1..Len(sorted_months) |->
                [month |-> sorted_months[k],
                 total_solved |-> sum_values(monthly_stats[sorted_months[k]]),
                 users |-> month_users(sorted_months[k])]],
        total_users |-> Len(all_usernames),
        total_months |-> Cardinality(DOMAIN monthly_stats)]

(***************************************************************************)
(* batch_crawl: one crawl per username, with no filter.  Each user's       *)
(* status page is a single page.                                           *)
(***************************************************************************)
MaxUsers == 3

user_delay == 5

\* the names in the order they first appear in a list
Names == <<"carol", "alice", "bob">>

FirstAppearancesInOrder(list) ==
    \A k \in 1..Len(list) :
        LET seen == {list[j] : j \in 1..(k - 1)} IN
        \/ list[k] \in seen
        \/ /\ Cardinality(seen) < Len(Names)
           /\ list[k] = Names[Cardinality(seen) + 1]

UserLists ==
    {list \in SeqsUpTo({Names[k] : k \in 1..Len(Names)}, MaxUsers) :
        list # <<>> /\ FirstAppearancesInOrder(list)}

BatchConfig == BOJCrawler(NoString, NoString, NoString)

BatchPages ==
    {Page(TRUE, <<>>, FALSE),
     Page(TRUE, <<TableRow("s2", 9, TRUE, TRUE, T_last),
                  TableRow("s3", 9, TRUE, TRUE, T_first)>>, FALSE),
     Page(TRUE, <<TableRow("s1", 9, TRUE, TRUE, T_new),
                  TableRow("s2", 9, TRUE, TRUE, T_last)>>, FALSE),
     Page(TRUE, <<TableRow("s9", 9, TRUE, TRUE, <<2024, 1, 15>>),
                  TableRow("s2", 9, TRUE, TRUE, T_last)>>, FALSE)}

BatchPageRuns == {PageRun(BatchConfig, page) : page \in BatchPages}

BatchInit ==
    /\ crawler = BatchConfig
    /\ submission_time = <<>>
    /\ includes = <<>>
    /\ before = <<>>
    /\ CrawlStart
    /\ usernames \in UserLists
    /\ generate_report \in BOOLEAN
    /\ user_index = 1
    /\ bpc = "for"
    /\ combined_monthly_stats = <<>>
    /\ report = <<>>
    /\ saves = 0
    /\ batch_log = <<>>
    /\ results = <<>>
    /\ args = NoArgs
    /\ exit_status = <<>>

\* the state get_solved_problems starts from, for the next user's crawler
CrawlReset ==
    /\ pc' = "loop"
    /\ current_url' = 1
    /\ stop_crawling' = FALSE
    /\ all_problems' = <<>>
    /\ attempt' = 0
    /\ req_log' = <<>>
    /\ last_answer' = NoAnswer
    /\ failure' = "none"
    /\ calls' = <<>>
    /\ page_sleeps' = 0
    /\ expected' = <<>>
    /\ accepted_sum' = 0
    /\ stopped_at' = 0
    /\ rows_served' = 0
    /\ included_below' = 0
    /\ row_errors' = 0

\* line 106: the for loop takes the next username, or ends
NextUser ==
    /\ bpc = "for"
    /\ bpc' = IF user_index <= Len(usernames) THEN "crawl" ELSE "report"
    /\ UNCHANGED <<crawler, usernames, generate_report, user_index,
                   combined_monthly_stats, report, saves, batch_log, results>>
    /\ UNCHANGED crawl_vars
    /\ UNCHANGED main_vars
    /\ UNCHANGED filter_vars

\* lines 110-130: get_solved_problems has returned
UserDone ==
    /\ bpc = "crawl"
    /\ pc = "returned"
    /\ combined_monthly_stats' =
          IF all_problems # <<>> /\ generate_report
          THEN merge_monthly_stats(combined_monthly_stats,
                   generate_monthly_report(all_problems, usernames[user_index]))
          ELSE combined_monthly_stats
    /\ batch_log' =
          IF user_index < Len(usernames)
          THEN Append(batch_log, [after |-> user_index, event |-> "sleep",
                                  t |-> user_delay])
          ELSE batch_log
    /\ results' = Append(results, [user |-> usernames[user_index],
                                   raised |-> FALSE,
                                   problems |-> all_problems])
    /\ user_index' = user_index + 1
    /\ bpc' = "for"
    /\ CrawlReset
    /\ UNCHANGED <<crawler, usernames, generate_report, report, saves>>
    /\ UNCHANGED main_vars
    /\ UNCHANGED filter_vars

\* an exception that ends the whole batch_crawl call
UserRaisedUncaught ==
    /\ bpc = "crawl"
    /\ \/ pc = "loop" /\ calls = <<>>
       \/ pc = "returned" /\ all_problems # <<>>
    /\ batch_log' = Append(batch_log,
                        [after |-> user_index, event |-> "error", t |-> 0])
    /\ results' = Append(results, [user |-> usernames[user_index],
                                   raised |-> TRUE,
                                   problems |-> all_problems])
    /\ bpc' = "end"
    /\ CrawlReset
    /\ UNCHANGED <<crawler, usernames, generate_report, user_index,
                   combined_monthly_stats, report, saves>>
    /\ UNCHANGED main_vars
    /\ UNCHANGED filter_vars

\* lines 132-134: an exception leaves the try block, from the constructor
\* (line 109) or from save_to_json (line 114); get_solved_problems catches
\* its own.  The merge and the sleep below the raising line are not reached.
UserRaised ==
    /\ bpc = "crawl"
    /\ \/ pc = "loop" /\ calls = <<>>
       \/ pc = "returned" /\ all_problems # <<>>
    /\ batch_log' = Append(batch_log,
                        [after |-> user_index, event |-> "error", t |-> 0])
    /\ results' = Append(results, [user |-> usernames[user_index],
                                   raised |-> TRUE,
                                   problems |-> all_problems])
    /\ user_index' = user_index + 1
    /\ bpc' = "for"
    /\ CrawlReset
    /\ UNCHANGED <<crawler, usernames, generate_report, combined_monthly_stats,
                   report, saves>>
    /\ UNCHANGED main_vars
    /\ UNCHANGED filter_vars

\* lines 137-138
SaveReport ==
    /\ bpc = "report"
    /\ IF generate_report
       THEN /\ report' = <<save_monthly_report(combined_monthly_stats, usernames)>>
            /\ saves' = saves + 1
       ELSE UNCHANGED <<report, saves>>
    /\ bpc' = "end"
    /\ UNCHANGED <<crawler, usernames, generate_report, user_index,
                   combined_monthly_stats, batch_log, results>>
    /\ UNCHANGED crawl_vars
    /\ UNCHANGED main_vars
    /\ UNCHANGED filter_vars

\* line 110: the steps of the current user's get_solved_problems
CrawlStep ==
    /\ bpc = "crawl"
    /\ \/ LoopTest
       \/ \E r \in Answers : AttemptRetried(r)
       \/ \E r \in Answers : AttemptRaised(r)
       \/ \E r \in Answers : AttemptReturned(r)
       \/ PageWithoutTable
       \/ \E run \in BatchPageRuns : PageProcessed(run)

BatchNext ==
    \/ NextUser
    \/ CrawlStep
    \/ UserDone
    \/ UserRaised
    \/ SaveReport

BatchSpec == BatchInit /\ [][BatchNext]_vars

(***************************************************************************)
(* batch.py: main.  It checks the options, reads the usernames and calls   *)
(* batch_crawl; every path ends with main returning, and the process       *)
(* exits with the status of a script that ran to its end.                  *)
(***************************************************************************)
\* validate_yymmdd_date
validate_yymmdd_date(date_str) ==
    IF date_str = <<>> \/ Len(date_str) # 6 THEN FALSE
    ELSE datetime(2000 + date_str[1] * 10 + date_str[2],
                  date_str[3] * 10 + date_str[4],
                  date_str[5] * 10 + date_str[6]).ok

\* the exit status of a process whose main returned
status_after_return == 0

\* the status main's early returns at lines 158, 163, 168, 173 end with
status_after_error == status_after_return

\* lines 152-173: the message printed, "" when the options pass
option_error(a) ==
    IF a.month # <<>> /\ ~cli_date_accepted(a.month) THEN "month"
    ELSE IF a.start_date # <<>> /\ ~validate_yymmdd_date(a.start_date)
    THEN "start_date"
    ELSE IF a.end_date # <<>> /\ ~validate_yymmdd_date(a.end_date)
    THEN "end_date"
    ELSE IF (a.start_date # <<>> \/ a.end_date # <<>>) /\ a.month # <<>>
    THEN "conflict"
    ELSE ""

\* -m with a month, a thirteenth month, a month of one digit; -s and -e
\* with a date, the 30th of February, a date short of two digits
MonthArgs == {<<>>, <<2,0,2,4,0,1>>, <<2,0,2,4,1,3>>, <<2,0,2,4,1>>}

StartArgs == {<<>>, <<2,4,0,1,0,1>>, <<2,4,0,2,3,0>>}

EndArgs == {<<>>, <<2,4,0,1,3,1>>, <<2,4,0,1>>}

FileArgs == {<<>>, <<"carol">>, <<"carol", "alice">>}

MainArgs ==
    [month : MonthArgs, start_date : StartArgs, end_date : EndArgs,
     no_report : BOOLEAN, file : FileArgs]

MainPageRuns ==
    [c \in {BOJCrawler(a.start_date, a.end_date, a.month) :
                a \in {b \in MainArgs : option_error(b) = ""}} |->
        {PageRun(c, page) : page \in BatchPages}]

MainInit ==
    /\ args \in MainArgs
    /\ exit_status = <<>>
    /\ crawler = BatchConfig
    /\ submission_time = <<>>
    /\ includes = <<>>
    /\ before = <<>>
    /\ CrawlStart
    /\ usernames = <<>>
    /\ generate_report = FALSE
    /\ user_index = 0
    /\ bpc = "main"
    /\ combined_monthly_stats = <<>>
    /\ report = <<>>
    /\ saves = 0
    /\ batch_log = <<>>
    /\ results = <<>>

\* lines 152-179: an option fails its check, or the file has no username:
\* main prints and returns
MainRejects ==
    /\ bpc = "main"
    /\ option_error(args) # "" \/ args.file = <<>>
    /\ batch_log' = Append(batch_log,
          [after |-> 0, t |-> 0,
           event |-> IF option_error(args) # "" THEN option_error(args)
                     ELSE "no usernames"])
    /\ exit_status' = <<status_after_error>>
    /\ bpc' = "exited"
    /\ UNCHANGED <<crawler, usernames, generate_report, user_index,
                   combined_monthly_stats, report, saves, results, args>>
    /\ UNCHANGED crawl_vars
    /\ UNCHANGED filter_vars

\* line 188: the call of batch_crawl
MainCallsBatch ==
    /\ bpc = "main"
    /\ option_error(args) = ""
    /\ args.file # <<>>
    /\ crawler' = BOJCrawler(args.start_date, args.end_date, args.month)
    /\ usernames' = args.file
    /\ generate_report' = ~args.no_report
    /\ user_index' = 1
    /\ bpc' = "for"
    /\ UNCHANGED <<combined_monthly_stats, report, saves, batch_log, results>>
    /\ UNCHANGED main_vars
    /\ UNCHANGED crawl_vars
    /\ UNCHANGED filter_vars

\* the steps of get_solved_problems under the filter of the options
MainCrawlStep ==
    /\ bpc = "crawl"
    /\ \/ LoopTest
       \/ \E r \in Answers : AttemptRetried(r)
       \/ \E r \in Answers : AttemptRaised(r)
       \/ \E r \in Answers : AttemptReturned(r)
       \/ PageWithoutTable
       \/ \E run \in MainPageRuns[crawler] : PageProcessed(run)

\* batch_crawl has returned, and main with it
MainReturns ==
    /\ bpc = "end"
    /\ exit_status' = <<status_after_return>>
    /\ bpc' = "exited"
    /\ UNCHANGED <<crawler, usernames, generate_report, user_index,
                   combined_monthly_stats, report, saves, batch_log, results,
                   args>>
    /\ UNCHANGED crawl_vars
    /\ UNCHANGED filter_vars

MainNext ==
    \/ MainRejects
    \/ MainCallsBatch
    \/ NextUser
    \/ MainCrawlStep
    \/ UserDone
    \/ UserRaised
    \/ SaveReport
    \/ MainReturns

MainSpec == MainInit /\ [][MainNext]_vars

(***************************************************************************)
(* Claims on the crawl (Spec, FairSpec).                                   *)
(***************************************************************************)
PagesInOrder == calls = [i \in 1..Len(calls) |-> i]

LastCall == IF calls = <<>> THEN 0 ELSE calls[Len(calls)]

\* C1: once a page holds a row that is read and is before the range, the
\* crawl is over with that page the last one requested, and the result is the
\* included rows of the earlier pages followed by the included rows above the
\* first such row of that page.
C1_EarlyStop ==
    stopped_at # 0 =>
        /\ pc = "returned"
        /\ stop_crawling
        /\ PagesInOrder
        /\ LastCall = stopped_at
        /\ all_problems = expected

\* a crawl stopped on its second page, with records of the first page and an
\* included row below the stopping row
C1_Witness ==
    /\ stopped_at = 2
    /\ pc = "returned"
    /\ Len(all_problems) = 2
    /\ included_below = 1

\* C2: every crawl returns; a crawl that met no failure and no row before
\* the range requested the pages of the chain once each in chain order, ended
\* with no next page, and returns the included rows of all its pages in page
\* then row order, as many as the pages' accepted rows sum to.
C2_PaginationTerminates ==
    /\ <>(pc = "returned")
    /\ []((pc = "returned" /\ failure = "none" /\ stopped_at = 0) =>
            /\ current_url = 0
            /\ ~stop_crawling
            /\ calls # <<>>
            /\ PagesInOrder
            /\ all_problems = expected
            /\ Len(all_problems) = accepted_sum)

\* a chain of two pages walked to its end, one of their rows skipped
C2_Witness ==
    /\ pc = "returned"
    /\ failure = "none"
    /\ stopped_at = 0
    /\ calls = <<1, 2>>
    /\ Len(all_problems) = 3
    /\ rows_served = 4

\* C3: a failed fetch or a page without a status table ends the crawl at
\* once: the failing page is the last one requested and the call returns the
\* records of the pages processed before it.
C3_FailureReturnsAccumulated ==
    failure # "none" =>
        /\ pc = "returned"
        /\ PagesInOrder
        /\ LastCall = current_url
        /\ all_problems = expected

\* the second page failed after the first gave records
C3_Witness ==
    /\ failure # "none"
    /\ calls = <<1, 2>>
    /\ all_problems # <<>>

IsGet(e) == e.ev = "GET"

IsRetrySleep(e) == e.ev = "SLEEP" /\ e.t = 2

\* C4: a call answered 403 on every attempt fails after 4 GETs with a sleep
\* of 2 between consecutive GETs and none after the last; an attempt
\* answered with a success returns the response at once.
C4_RetryExhaustion ==
    /\ []((failure = "fetch" /\ last_answer = HttpResponse(403)) =>
            /\ Len(req_log) = 7
            /\ \A i \in 1..7 : IF i % 2 = 1 THEN IsGet(req_log[i])
                               ELSE IsRetrySleep(req_log[i]))
    /\ []((pc = "request") =>
            /\ attempt <= 3
            /\ Len(req_log) = 2 * attempt
            /\ \A i \in 1..Len(req_log) : IF i % 2 = 1 THEN IsGet(req_log[i])
                                          ELSE IsRetrySleep(req_log[i]))
    /\ [][(pc = "request" /\ last_answer' = HttpResponse(200)) =>
            (pc' = "parse" /\ failure' = "none")]_vars

\* a call that gave up on the fourth 403
C4_Witness ==
    /\ failure = "fetch"
    /\ last_answer = HttpResponse(403)
    /\ attempt = 3

OtherFailures == {HttpResponse(st) : st \in ErrorStatuses} \cup {NetworkFailure}

\* C5: an answer with an error status other than 403, or a network failure,
\* fails the call on that attempt: the GET is the last event of the call,
\* with no sleep and no further GET after it.
C5_OtherErrorsFailAtOnce ==
    [][(pc = "request" /\ last_answer' \in OtherFailures) =>
            /\ pc' = "returned"
            /\ failure' = "fetch"
            /\ attempt' = attempt
            /\ req_log' = Append(req_log, GetEvent)]_vars

\* a 500 on the third attempt, after two 403s
C5_Witness ==
    /\ failure = "fetch"
    /\ last_answer = HttpResponse(500)
    /\ attempt = 2
    /\ Len(req_log) = 5

(***************************************************************************)
(* Claims on the filter (FilterSpec).  Months and days are compared here   *)
(* as numbers on the calendar, whatever the code compares.                 *)
(***************************************************************************)
WellFormed(t) == strptime(t).ok

TimeMonth(t) == t[1] * 12 + t[2]

TimeDay(t) == (t[1] * 12 + t[2]) * 31 + t[3]

\* the month a YYYYMM string names
StringMonth(s) ==
    (s[1] * 1000 + s[2] * 100 + s[3] * 10 + s[4]) * 12 + s[5] * 10 + s[6]

\* the day a YYMMDD string names
StringDay(s) ==
    ((2000 + s[1] * 10 + s[2]) * 12 + s[3] * 10 + s[4]) * 31 + s[5] * 10 + s[6]

IsMonthString(s) == Len(s) = 6 /\ (s[5] * 10 + s[6]) \in 1..12

IsDateString(s) == parse_yymmdd_date(s).ok

NoFilter ==
    /\ crawler.start_date = NoString
    /\ crawler.end_date = NoString
    /\ crawler.target_month = NoString

MonthOnly ==
    /\ crawler.start_date = NoString
    /\ crawler.end_date = NoString
    /\ IsMonthString(crawler.target_month)

RangeGiven == crawler.start_date # NoString \/ crawler.end_date # NoString

RangeOnly ==
    /\ RangeGiven
    /\ crawler.target_month = NoString
    /\ crawler.start_date # NoString => IsDateString(crawler.start_date)
    /\ crawler.end_date # NoString => IsDateString(crawler.end_date)

Answered(result, value) == result # <<>> => result[1] = value

\* C6: under a month filter alone a well-formed timestamp is included iff
\* its month is the target month, and is before the range iff its month is
\* earlier than the target month.
C6_MonthFilter ==
    (MonthOnly /\ WellFormed(submission_time)) =>
        /\ Answered(includes,
                    TimeMonth(submission_time) = StringMonth(crawler.target_month))
        /\ Answered(before,
                    TimeMonth(submission_time) < StringMonth(crawler.target_month))

\* October 2023 against the target month February 2024: earlier, though its
\* month number is the larger
C6_Witness ==
    /\ MonthOnly
    /\ crawler.target_month = <<2,0,2,4,0,2>>
    /\ submission_time = <<2023, 10, 31, 23, 59, 59>>
    /\ includes = <<FALSE>>
    /\ before = <<TRUE>>

\* C7: under a date range alone a well-formed timestamp is included iff its
\* date is within the bounds given, whatever its time of day, and is before
\* the range iff a start is given and its date is earlier than the start; with
\* an end alone it never is.
C7_DateRangeFilter ==
    (RangeOnly /\ WellFormed(submission_time)) =>
        /\ Answered(includes,
              /\ crawler.start_date # NoString =>
                    StringDay(crawler.start_date) <= TimeDay(submission_time)
              /\ crawler.end_date # NoString =>
                    TimeDay(submission_time) <= StringDay(crawler.end_date))
        /\ Answered(before,
              /\ crawler.start_date # NoString
              /\ TimeDay(submission_time) < StringDay(crawler.start_date))

\* the last second of the end date is within the range
C7_Witness ==
    /\ RangeOnly
    /\ crawler.start_date = <<2,4,0,1,0,1>>
    /\ crawler.end_date = <<2,4,0,1,3,1>>
    /\ submission_time = <<2024, 1, 31, 23, 59, 59>>
    /\ includes = <<TRUE>>
    /\ before = <<FALSE>>

\* C8 as stated: under every filter, none included, a timestamp that does not
\* parse is neither included nor before the range.
C8_MalformedNeverIncluded ==
    ~WellFormed(submission_time) =>
        /\ Answered(includes, FALSE)
        /\ Answered(before, FALSE)

\* C8 as amended: a timestamp that does not parse is never before the range;
\* it is not included under a month or a date-range filter, and is included
\* when no filter is configured.
C8_MalformedAmended ==
    ~WellFormed(submission_time) =>
        /\ Answered(includes, NoFilter)
        /\ Answered(before, FALSE)

\* the empty string under a month filter
C8_Witness ==
    /\ MonthOnly
    /\ submission_time = <<>>
    /\ includes = <<FALSE>>
    /\ before = <<FALSE>>

RangeAlone ==
    BOJCrawler(crawler.start_date, crawler.end_date, NoString)

\* C9: with a date range and a target month both given, both decisions are
\* the ones the date range alone gives.
C9_RangePrecedence ==
    (/\ RangeGiven
     /\ crawler.start_date # NoString => IsDateString(crawler.start_date)
     /\ crawler.end_date # NoString => IsDateString(crawler.end_date)
     /\ IsMonthString(crawler.target_month)) =>
        /\ Answered(includes,
                    should_include_submission(RangeAlone, submission_time))
        /\ Answered(before, is_before_date_range(RangeAlone, submission_time))

(***************************************************************************)
(* Claims on the batch                                                     *)
(***************************************************************************)
\* the month key "YYYY-MM" of a timestamp, as its six digits
MonthKey(t) ==
    <<t[1] \div 1000, (t[1] \div 100) % 10, (t[1] \div 10) % 10, t[1] % 10,
      t[2] \div 10, t[2] % 10>>

\* the records with a timestamp that reads as a date and time
Dated(problems) ==
    {k \in 1..Len(problems) : WellFormed(problems[k].submission_time)}

MonthCount(problems, key) ==
    Cardinality({k \in Dated(problems) :
                    MonthKey(problems[k].submission_time) = key})

MonthKeys(problems) ==
    {MonthKey(problems[k].submission_time) : k \in Dated(problems)}

\* the saved report lists, under month `key`, `user` with `count`
Listed(rep, key, user, count) ==
    \E m \in 1..Len(rep.monthly_stats) :
        /\ rep.monthly_stats[m].month = key
        /\ \E u \in 1..Len(rep.monthly_stats[m].users) :
              rep.monthly_stats[m].users[u] = [user |-> user, count |-> count]

OccursOnce(list, k) == \A j \in 1..Len(list) : list[j] = list[k] => j = k

\* C10: the usernames are taken in list order, each once, whether or not a
\* user raises; a raise is logged; the report is saved once, after the last
\* user; and a user that did not raise is listed in it with the count of
\* every month of the records its crawl returned.
C10_BatchContinuation ==
    /\ Len(results) = user_index - 1
    /\ Len(results) <= Len(usernames)
    /\ \A k \in 1..Len(results) :
          /\ results[k].user = usernames[k]
          /\ results[k].raised <=>
                \E e \in 1..Len(batch_log) :
                    batch_log[e] = [after |-> k, event |-> "error", t |-> 0]
    /\ bpc \in {"report", "end"} => Len(results) = Len(usernames)
    /\ bpc # "end" => saves = 0 /\ report = <<>>
    /\ (bpc = "end" /\ generate_report) =>
          /\ saves = 1
          /\ Len(report) = 1
          /\ \A k \in 1..Len(results) :
                (~results[k].raised /\ OccursOnce(usernames, k)) =>
                    \A key \in MonthKeys(results[k].problems) :
                        Listed(report[1], key, results[k].user,
                               MonthCount(results[k].problems, key))

\* the second of three users raises, the first and third return records, and the report is saved
C10_Witness ==
    /\ bpc = "end"
    /\ saves = 1
    /\ usernames = <<"carol", "alice", "bob">>
    /\ results[2].raised
    /\ ~results[1].raised /\ Len(results[1].problems) = 2
    /\ ~results[3].raised /\ Len(results[3].problems) = 2
    /\ MonthKeys(results[3].problems) # MonthKeys(results[1].problems)

\* the sleeps logged after the user at position k
SleepsAfter(k) ==
    {e \in 1..Len(batch_log) :
        batch_log[e].after = k /\ batch_log[e].event = "sleep"}

\* C11: once a user has been processed, whatever the outcome, one delay of
\* 5 has been waited after it if it is not the last user, and none if it is
\* the last.
C11_InterUserDelay ==
    \A k \in 1..Len(results) :
        /\ k < Len(usernames) =>
              /\ Cardinality(SleepsAfter(k)) = 1
              /\ \A e \in SleepsAfter(k) : batch_log[e].t = 5
        /\ k = Len(usernames) => SleepsAfter(k) = {}

\* the position at which a username first stands in the batch list
FirstPosition(list, name) ==
    CHOOSE k \in 1..Len(list) :
        list[k] = name /\ \A j \in 1..(k - 1) : list[j] # name

RECURSIVE SumOfCounts(_)
SumOfCounts(users) ==
    IF users = <<>> THEN 0
    ELSE users[1].count + SumOfCounts(Tail(users))

\* no run of this user had records merged: each raised or returned none
NothingMerged(name) ==
    \A k \in 1..Len(results) :
        results[k].user = name =>
            results[k].raised \/ results[k].problems = <<>>

\* C12: in the saved report every month lists every username of the batch
\* list once (with 0 when nothing of the user was merged), the users of a
\* month are in descending order of count with equal counts in batch-list
\* order, the months are in descending calendar order, and total_solved is
\* the sum of the counts listed under the month.
C12_ReportCompleteAndOrdered ==
    report # <<>> =>
        LET months == report[1].monthly_stats
            names == {usernames[k] : k \in 1..Len(usernames)}
        IN /\ \A m \in 1..Len(months) :
                LET users == months[m].users IN
                /\ {users[u].user : u \in 1..Len(users)} = names
                /\ Len(users) = Cardinality(names)
                /\ \A u \in 1..Len(users) :
                      NothingMerged(users[u].user) => users[u].count = 0
                /\ \A a, b \in 1..Len(users) :
                      a < b =>
                        \/ users[a].count > users[b].count
                        \/ /\ users[a].count = users[b].count
                           /\ FirstPosition(usernames, users[a].user)
                                < FirstPosition(usernames, users[b].user)
                /\ months[m].total_solved = SumOfCounts(users)
           /\ \A a, b \in 1..Len(months) :
                a < b => StringMonth(months[a].month) > StringMonth(months[b].month)

\* two months; in the later one alice and bob tie ahead of carol, who is
\* first in the batch list and has nothing in that month
C12_Witness ==
    /\ report # <<>>
    /\ usernames = <<"carol", "alice", "bob">>
    /\ Len(report[1].monthly_stats) = 2
    /\ report[1].monthly_stats[1].users =
          <<[user |-> "alice", count |-> 1], [user |-> "bob", count |-> 1],
            [user |-> "carol", count |-> 0]>>
    /\ report[1].monthly_stats[2].total_solved = 4

\* the runs of `name` that stored a count under `key`: they returned, with
\* a record of that month
RunsStoring(name, key) ==
    {k \in 1..Len(results) :
        /\ results[k].user = name
        /\ ~results[k].raised
        /\ MonthCount(results[k].problems, key) > 0}

Latest(runs) == CHOOSE k \in runs : \A j \in runs : j <= k

AllMonthKeys ==
    DOMAIN combined_monthly_stats
        \cup UNION {MonthKeys(results[k].problems) : k \in 1..Len(results)}

\* C13: with the report requested, the combined count of a month and a
\* username is the number of records of that month returned by the user's
\* run; when the username was processed more than once it is the count of
\* the latest run that had records of the month, not a sum over the runs.
C13_AggregationOverwrites ==
    generate_report =>
        \A key \in AllMonthKeys :
            \A k \in 1..Len(results) :
                LET name == results[k].user
                    runs == RunsStoring(name, key)
                IN stats_get(combined_monthly_stats, key, name) =
                      IF runs = {} THEN 0
                      ELSE MonthCount(results[Latest(runs)].problems, key)

\* carol is processed twice: two records of 2024-01 the first time, one of
\* 2024-01 beside an undated one the second time
C13_Witness ==
    /\ generate_report
    /\ Len(results) = 3
    /\ results[1].user = "carol" /\ results[3].user = "carol"
    /\ ~results[1].raised /\ ~results[3].raised
    /\ MonthCount(results[1].problems, <<2,0,2,4,0,1>>) = 2
    /\ Len(results[3].problems) = 2
    /\ MonthCount(results[3].problems, <<2,0,2,4,0,1>>) = 1
    /\ combined_monthly_stats[<<2,0,2,4,0,1>>]["carol"] = 1

(***************************************************************************)
(* Claims on the single-user command line                                  *)
(***************************************************************************)
\* the month given with -d
CliMonth == crawler.start_date

\* C14: run with -d M, every record collected has the month M, and nothing
\* is collected at or below a row of a month earlier than M.
C14_CliMonthFilter ==
    /\ \A k \in 1..Len(all_problems) :
          /\ WellFormed(all_problems[k].submission_time)
          /\ TimeMonth(all_problems[k].submission_time) = StringMonth(CliMonth)
    /\ \A j, k \in 1..Len(all_problems) :
          j <= k =>
            ~(/\ WellFormed(all_problems[j].submission_time)
              /\ TimeMonth(all_problems[j].submission_time)
                    < StringMonth(CliMonth))

(***************************************************************************)
(* Claims on the batch command line                                        *)
(***************************************************************************)
\* an option that is given and is not of its format
InvalidOption ==
    \/ args.month # <<>> /\ ~IsMonthString(args.month)
    \/ args.start_date # <<>> /\ ~IsDateString(args.start_date)
    \/ args.end_date # <<>> /\ ~IsDateString(args.end_date)

ErrorPrinted ==
    \E e \in 1..Len(batch_log) :
        batch_log[e].event \in {"month", "start_date", "end_date"}

\* C15: when the month is not a valid YYYYMM or a date not a valid YYMMDD,
\* the process ends having printed an error, with a status other than 0,
\* and crawls nothing.
C15_InvalidOptionsExitNonZero ==
    InvalidOption =>
        /\ bpc \in {"main", "exited"}
        /\ bpc = "exited" =>
              /\ ErrorPrinted
              /\ exit_status # <<0>>

(***************************************************************************)
(* Claims on the rows of a page                                            *)
(***************************************************************************)
\* a row of at least n cells with the link the timestamp is read from
RowRead(row, n) == row.ncols >= n /\ row.time_link

RowStops(c, row, n) ==
    RowRead(row, n) /\ is_before_date_range(c, row.submission_time)

RowExtracted(c, row, n) ==
    /\ RowRead(row, n)
    /\ row.title_link
    /\ should_include_submission(c, row.submission_time)

\* the index of the first row that stops the crawl, past the end if none
StopIndex(c, rows, n) ==
    IF \E k \in 1..Len(rows) : RowStops(c, rows[k], n)
    THEN CHOOSE k \in 1..Len(rows) :
            /\ RowStops(c, rows[k], n)
            /\ \A j \in 1..(k - 1) : ~RowStops(c, rows[j], n)
    ELSE Len(rows) + 1

\* what a page yields when each row above the stopping row is handled on
\* its own: extracted if it can be, skipped if not
PageYield(c, rows, n) ==
    LET above == SubSeq(rows, 1, StopIndex(c, rows, n) - 1)
        Test(row) == RowExtracted(c, row, n)
        taken == SelectSeq(above, Test)
    IN [k \in 1..Len(taken) |-> problem_of(taken[k])]

\* a page is handled row by row, rows of n cells or more being read
RowsHandled(run, n) ==
    /\ all_problems' = all_problems \o PageYield(crawler, run.page.rows, n)
    /\ (run.page.next /\ StopIndex(crawler, run.page.rows, n) > Len(run.page.rows))
          => (pc' = "loop" /\ current_url' = current_url + 1)

BeforeFetch == pc = "loop" /\ current_url # 0 /\ ~stop_crawling

\* C17: when the crawl is about to request a page, one delay of 2 has been
\* waited for each page requested before it; at every other point, and so
\* after the last page, an early stop, a failed fetch or a page without a
\* table, one delay of 2 has been waited between each two consecutive
\* requested pages and none after the latest one.
C17_InterPageDelay ==
    /\ BeforeFetch => page_sleeps = 2 * Len(calls)
    /\ (~BeforeFetch /\ calls # <<>>) => page_sleeps = 2 * (Len(calls) - 1)
    /\ calls = <<>> => page_sleeps = 0

\* two pages were requested and the second fetch failed
C17_Witness ==
    /\ pc = "returned"
    /\ calls = <<1, 2>>
    /\ failure = "fetch"
    /\ all_problems # <<>>
    /\ page_sleeps = 2

====
